---- MODULE Spec2Model ----
(***************************************************************************)
(* Model of the continuous-deployment webhook relay.                       *)
(*                                                                         *)
(* Two revisions of the handler are modelled side by side:                 *)
(*   variant "build" - src/main.go: build-completion notification, one     *)
(*                     static HMAC secret, deployments only;               *)
(*   variant "push"  - src/unnamed/part_000: push-event notification, a    *)
(*                     master key (current and previous) read from the     *)
(*                     secret store, deployments and stateful sets.        *)
(*                                                                         *)
(* Strings are sequences of text chunks (single characters where the code  *)
(* looks inside the string).  HMAC-SHA1 and hex encoding are symbolic and  *)
(* injective: a digest is the record of the key and the input it was       *)
(* computed from, written out as text.  The bytes of a request body are    *)
(* named; Document gives what the named bytes say.                         *)
(***************************************************************************)
EXTENDS Integers, Sequences, FiniteSets, TLC

(***************************************************************************)
(* Bounds of the model.                                                    *)
(***************************************************************************)
\* Number of writes other cluster actors make during one run.
MaxOtherWrites == 6

\* retry.DefaultRetry: wait.Backoff{Steps: 5, ...}, the attempts RetryOnConflict makes.
DefaultRetrySteps == 5

(***************************************************************************)
(* Strings of the model.                                                   *)
(***************************************************************************)
Main == <<"m", "a", "i", "n">>
Dev == <<"d", "e", "v">>
RefsHeads == <<"r", "e", "f", "s", "/", "h", "e", "a", "d", "s", "/">>
RepoName == <<"O", "r", "g", "/", "a", "p", "p">>
OtherRepoName == <<"o", "r", "g", "/", "l", "i", "b">>
Img == <<"img">>
ImgTag == <<"img", ":", "tag">>
Sha == <<"abc123">>
Lib == <<"lib">>
LibTag == <<"lib", ":", "tag">>
OldImage == <<"img", ":", "old">>
EmptyString == <<>>

(***************************************************************************)
(* strings / strconv / fmt                                                 *)
(***************************************************************************)
Digits == {"0", "1", "2", "3", "4", "5", "6", "7", "8", "9"}

DigitVal(c) ==
    CASE c = "0" -> 0 [] c = "1" -> 1 [] c = "2" -> 2 [] c = "3" -> 3
      [] c = "4" -> 4 [] c = "5" -> 5 [] c = "6" -> 6 [] c = "7" -> 7
      [] c = "8" -> 8 [] c = "9" -> 9

RECURSIVE ParseUint(_)
ParseUint(s) ==
    IF s = <<>> THEN 0
    ELSE ParseUint(SubSeq(s, 1, Len(s) - 1)) * 10 + DigitVal(s[Len(s)])

\* strconv.Atoi: an optional sign followed by at least one decimal digit.
Atoi(s) ==
    LET signed == Len(s) > 0 /\ s[1] \in {"+", "-"}
        digits == IF signed THEN Tail(s) ELSE s
        wellFormed == Len(digits) > 0 /\ \A i \in 1..Len(digits) : digits[i] \in Digits
    IN  IF ~wellFormed THEN [err |-> TRUE, n |-> 0]
        ELSE [err |-> FALSE,
              n |-> IF signed /\ s[1] = "-" THEN 0 - ParseUint(digits) ELSE ParseUint(digits)]

\* strings.Split(s, sep) for a one-character separator.
RECURSIVE Split(_, _)
Split(s, sep) ==
    IF \A i \in 1..Len(s) : s[i] # sep THEN <<s>>
    ELSE LET i == CHOOSE j \in 1..Len(s) : s[j] = sep /\ \A k \in 1..(j - 1) : s[k] # sep
         IN  <<SubSeq(s, 1, i - 1)>> \o Split(SubSeq(s, i + 1, Len(s)), sep)

HasPrefix(s, prefix) ==
    Len(s) >= Len(prefix) /\ SubSeq(s, 1, Len(prefix)) = prefix

\* strings.TrimPrefix
TrimPrefix(s, prefix) ==
    IF HasPrefix(s, prefix) THEN SubSeq(s, Len(prefix) + 1, Len(s)) ELSE s

LowerChar(c) ==
    CASE c = "O" -> "o" [] c = "R" -> "r" [] c = "G" -> "g" [] c = "A" -> "a"
      [] c = "P" -> "p" [] c = "L" -> "l" [] c = "I" -> "i" [] c = "B" -> "b"
      [] OTHER -> c

\* strings.ToLower
ToLower(s) == [i \in 1..Len(s) |-> LowerChar(s[i])]

\* strings.Replace(s, old, new, -1) for one-character old and new.
Replace(s, old, new) == [i \in 1..Len(s) |-> IF s[i] = old THEN new ELSE s[i]]

\* fmt.Sprintf("%s:%s", image, sha)
SprintfImage(image, sha) == image \o <<":">> \o sha

(***************************************************************************)
(* crypto/hmac, encoding/hex, crypto/subtle (symbolic)                     *)
(***************************************************************************)
\* hmac.New(sha1.New, key); h.Write(input); h.Sum(nil)
HmacSha1(key, input) == <<"hmac-sha1(">> \o key \o <<",">> \o input \o <<")">>

\* hex.EncodeToString
HexEncodeToString(bytes) == <<"hex(">> \o bytes \o <<")">>

\* part_000: CreateSignature returns the raw digest.
CreateSignature(input, key) == HmacSha1(key, input)

\* part_000: CreateSignatureHash prefixes the hex digest.
CreateSignatureHash(signature) == <<"sha1=">> \o HexEncodeToString(signature)

\* main.go: CreateSignature returns the prefixed hex digest directly.
CreateSignatureString(input, key) == <<"sha1=">> \o HexEncodeToString(HmacSha1(key, input))

\* subtle.ConstantTimeCompare: 1 when the two byte strings are equal, else 0.
ConstantTimeCompare(x, y) == IF x = y THEN 1 ELSE 0

\* sha1.Size: the bytes of a SHA-1 digest.
Sha1Size == 20

\* len([]byte(s)) of a header or signature: empty, the hex digits of a
\* digest, or those digits behind the five bytes of "sha1=".
ByteLength(s) ==
    IF s = <<>> THEN 0
    ELSE IF HasPrefix(s, <<"sha1=">>) THEN Len(<<"s", "h", "a", "1", "=">>) + 2 * Sha1Size
    ELSE 2 * Sha1Size

\* The bytes subtle.ConstantTimeCompare looks at: it returns 0 immediately
\* when the lengths differ, else it combines every pair of bytes whatever
\* their contents.
ConstantTimeCompareSteps(x, y) ==
    IF ByteLength(x) # ByteLength(y) THEN 0 ELSE ByteLength(x)

(***************************************************************************)
(* Key material.                                                           *)
(***************************************************************************)
CurrentKey == <<"key-current">>
PreviousKey == <<"key-previous">>
StrangerKey == <<"key-stranger">>
NilBytes == <<>>

\* secret.Data[name]: a missing entry of the map is the nil byte slice.
SecretData(data, name) == IF name \in DOMAIN data THEN data[name] ELSE NilBytes

\* The secret objects the store may hold: with and without a previous key.
SecretObjects ==
    { [master_key |-> CurrentKey, master_key_old |-> PreviousKey],
      [master_key |-> CurrentKey] }

(***************************************************************************)
(* encoding/json: the bytes of a body are either not JSON at all or a      *)
(* document that maps field paths to values; a field the document lacks    *)
(* decodes to the zero value of its type.                                  *)
(***************************************************************************)
GoodBuildDoc ==
    ("source.repoSource.repoName" :> RepoName) @@
    ("source.repoSource.branchName" :> Main) @@
    ("images" :> <<ImgTag>>)

GoodPushDoc ==
    ("github.repository" :> RepoName) @@ ("github.ref" :> RefsHeads \o Main) @@
    ("github.sha" :> Sha) @@ ("image" :> Img)

\* The same notifications for the second repository.
LibBuildDoc ==
    ("source.repoSource.repoName" :> OtherRepoName) @@
    ("source.repoSource.branchName" :> Main) @@
    ("images" :> <<LibTag>>)

LibPushDoc ==
    ("github.repository" :> OtherRepoName) @@ ("github.ref" :> RefsHeads \o Main) @@
    ("github.sha" :> Sha) @@ ("image" :> Lib)

NotJson == [json |-> FALSE, doc |-> <<>>]

JsonBody(doc) == [json |-> TRUE, doc |-> doc]

Without(doc, path) == [p \in DOMAIN doc \ {path} |-> doc[p]]

\* What the bytes of each body of the model say.
Document(raw) ==
    CASE raw = <<"not-json">> -> NotJson
      [] raw = <<"empty-object">> -> JsonBody(<<>>)
      [] raw = <<"build">> -> JsonBody(GoodBuildDoc)
      [] raw = <<"build-no-images">> -> JsonBody(Without(GoodBuildDoc, "images"))
      [] raw = <<"build-empty-image">> ->
           JsonBody([GoodBuildDoc EXCEPT !["images"] = <<EmptyString, ImgTag>>])
      [] raw = <<"push">> -> JsonBody(GoodPushDoc)
      [] raw = <<"push-no-image">> -> JsonBody(Without(GoodPushDoc, "image"))
      [] raw = <<"push-bare-ref">> -> JsonBody([GoodPushDoc EXCEPT !["github.ref"] = Main])
      [] raw = <<"build-lib">> -> JsonBody(LibBuildDoc)
      [] raw = <<"push-lib">> -> JsonBody(LibPushDoc)

Field(doc, path, zero) == IF path \in DOMAIN doc THEN doc[path] ELSE zero

\* json.Unmarshal(bytes, &body) into main.go's Message
UnmarshalBuild(raw) ==
    LET parsed == Document(raw)
    IN  IF ~parsed.json THEN [err |-> TRUE, msg |-> <<>>]
        ELSE [err |-> FALSE,
              msg |-> [RepoName   |-> Field(parsed.doc, "source.repoSource.repoName", EmptyString),
                       BranchName |-> Field(parsed.doc, "source.repoSource.branchName", EmptyString),
                       Images     |-> Field(parsed.doc, "images", <<>>)]]

\* json.Unmarshal(bytes, &body) into part_000's Message
UnmarshalPush(raw) ==
    LET parsed == Document(raw)
    IN  IF ~parsed.json THEN [err |-> TRUE, msg |-> <<>>]
        ELSE [err |-> FALSE,
              msg |-> [Repository |-> Field(parsed.doc, "github.repository", EmptyString),
                       Ref        |-> Field(parsed.doc, "github.ref", EmptyString),
                       Sha        |-> Field(parsed.doc, "github.sha", EmptyString),
                       Image      |-> Field(parsed.doc, "image", EmptyString)]]

Unmarshal(v, raw) == IF v = "build" THEN UnmarshalBuild(raw) ELSE UnmarshalPush(raw)

(***************************************************************************)
(* The normalized target of a decoded message, as the handler uses it.     *)
(***************************************************************************)
\* body.Source.RepoSource.RepoName / body.Github.Repository
Repository(v, msg) == IF v = "build" THEN msg.RepoName ELSE msg.Repository

\* body.Source.RepoSource.BranchName / strings.TrimPrefix(body.Github.Ref, "refs/heads/")
TargetBranch(v, msg) ==
    IF v = "build" THEN msg.BranchName ELSE TrimPrefix(msg.Ref, RefsHeads)

\* Mutant of TargetImage: the push revision writes the image without the sha.
TargetImageWithoutSha(v, msg) == IF v = "build" THEN msg.Images[1] ELSE msg.Image

\* body.Images[0] / fmt.Sprintf("%s:%s", body.Image, body.Github.Sha)
TargetImage(v, msg) ==
    IF v = "build" THEN msg.Images[1] ELSE SprintfImage(msg.Image, msg.Sha)

\* labelKey
LabelKey(v, msg) ==
    IF v = "build"
    THEN <<"kube.volkn.cloud/cloud-build-cd-name_">> \o ToLower(msg.RepoName)
    ELSE <<"ki-cd/">> \o Replace(ToLower(msg.Repository), "/", "_")

\* len(body.Images) < 1 || body.Images[0] == ""   (main.go only)
MissingImage(msg) == Len(msg.Images) < 1 \/ msg.Images[1] = EmptyString

(***************************************************************************)
(* Label value <branchName>.<containerPosition>, as the loop decodes it.   *)
(* malformed is TRUE when the loop skips the workload with a warning.      *)
(***************************************************************************)
DecodeLabelValue(labelValue) ==
    LET labelValues == Split(labelValue, ".")
    IN  IF Len(labelValues) # 2
        THEN [malformed |-> TRUE, branch |-> EmptyString, position |-> 0]
        ELSE LET conv == Atoi(labelValues[2])
             IN  IF conv.err
                 THEN [malformed |-> TRUE, branch |-> EmptyString, position |-> 0]
                 ELSE [malformed |-> FALSE, branch |-> labelValues[1], position |-> conv.n]

(***************************************************************************)
(* The cluster: workloads of two kinds held by the control plane.          *)
(***************************************************************************)
Workloads == {"d1", "d2", "s1"}

\* The order in which a list query returns the workloads.
WorkloadOrder == <<"d1", "d2", "s1">>

KindOf(w) == IF w = "s1" THEN "statefulSets" ELSE "deployments"

NoLabels == <<>>

Workload(name, labels, containers) ==
    [name |-> name, kind |-> KindOf(name), labels |-> labels,
     containers |-> containers, replicas |-> 0, resourceVersion |-> 1]

Requests == {"r1", "r2"}

VARIABLES
    variant,      \* "build" (main.go) or "push" (part_000): the revision that runs
    hmacSecret,   \* main.go: the HMAC_SECRET the process started with
    secretStore,  \* part_000: Data of the secret object in the secret store
    workloads,    \* name -> the object the control plane holds
    otherWrites,  \* name -> number of writes other actors made to the workload
    req,          \* request -> the inbound HTTP request
    h,            \* request -> the state of the Webhook call serving it
    log           \* the calls made to the caller, the control plane and the notifier

vars == <<variant, hmacSecret, secretStore, workloads, otherWrites, req, h, log>>

(***************************************************************************)
(* Inbound requests.                                                       *)
(***************************************************************************)
BuildBodies ==
    { <<"not-json">>, <<"build">>, <<"build-no-images">>, <<"build-empty-image">> }

PushBodies ==
    { <<"not-json">>, <<"push">>, <<"push-no-image">>, <<"push-bare-ref">> }

GoodBody(v) == IF v = "build" THEN <<"build">> ELSE <<"push">>

\* The repository a sender of raw names when it derives its signing key.
NamedRepository(raw) == Field(Document(raw).doc, "github.repository", EmptyString)

\* The values a sender may put into the x-hub-signature header of a request
\* with body raw: none, or a signature it computed with the keys it holds.
BuildHeaders(raw) ==
    { EmptyString,
      HexEncodeToString(HmacSha1(CurrentKey, raw)),
      CreateSignatureString(<<"empty-object">>, CurrentKey) }
    \cup { CreateSignatureString(raw, k) : k \in {CurrentKey, StrangerKey} }

PushHeaders(raw) ==
    { EmptyString,
      CreateSignatureHash(CreateSignature(raw, CurrentKey)),
      CreateSignatureHash(CreateSignature(raw, CreateSignature(OtherRepoName, CurrentKey))),
      CreateSignatureHash(CreateSignature(raw, CreateSignature(ToLower(RepoName), PreviousKey))) }
    \cup { CreateSignatureHash(CreateSignature(raw, CreateSignature(NamedRepository(raw), m))) :
             m \in {CurrentKey, PreviousKey, StrangerKey, NilBytes} }

Bodies(v) == IF v = "build" THEN BuildBodies ELSE PushBodies

Headers(v, raw) == IF v = "build" THEN BuildHeaders(raw) ELSE PushHeaders(raw)

\* The header a sender holding the current key sends with raw.
GoodHeader(v, raw) ==
    IF v = "build" THEN CreateSignatureString(raw, CurrentKey)
    ELSE CreateSignatureHash(CreateSignature(raw, CreateSignature(NamedRepository(raw), CurrentKey)))

NoRequest == [route |-> FALSE, raw |-> <<"not-json">>, header |-> EmptyString]

(***************************************************************************)
(* Label values found on workloads.                                        *)
(***************************************************************************)
LabelValues ==
    { Main \o <<".", "0">>, Main \o <<".", "1">>, Main \o <<".", "2">>,
      Main, Main \o <<".", "x">>, Main \o <<".", "-", "1">>,
      Main \o <<".", "0", ".", "1">>, Dev \o <<".", "0">> }

\* The label key the handler derives for the repository of the good bodies.
GoodLabelKey(v) == LabelKey(v, Unmarshal(v, GoodBody(v)).msg)

Labelled(v, value) == (GoodLabelKey(v) :> value)

\* One fixed cluster, used while the requests vary.
FixedCluster(v) ==
    ("d1" :> Workload("d1", Labelled(v, Dev \o <<".", "0">>), <<OldImage, OldImage>>)) @@
    ("d2" :> Workload("d2", Labelled(v, Main \o <<".", "0">>), <<OldImage>>)) @@
    ("s1" :> Workload("s1", Labelled(v, Main \o <<".", "x">>), <<OldImage>>))

\* The workloads of a cluster that carry a label value.
LabelledWith(cluster, v, values) ==
    {w \in Workloads : /\ GoodLabelKey(v) \in DOMAIN cluster[w].labels
                       /\ cluster[w].labels[GoodLabelKey(v)] \in values}

\* The clusters used while the request is the good one: d1 has two
\* containers and any of the label values, d2 and s1 have one container; at
\* most two workloads carry a label value that names a container of branch
\* main (build lists no stateful sets, its s1 is fixed).
Clusters(v) ==
    LET all ==
          { ("d1" :> Workload("d1", Labelled(v, l1), <<OldImage, OldImage>>)) @@
            ("d2" :> Workload("d2", l2, <<OldImage>>)) @@
            ("s1" :> Workload("s1", Labelled(v, l3), <<OldImage>>)) :
              l1 \in LabelValues,
              l2 \in {NoLabels, Labelled(v, Main \o <<".", "0">>),
                      Labelled(v, Main \o <<".", "1">>)},
              l3 \in IF v = "build" THEN {Main \o <<".", "x">>}
                     ELSE {Main \o <<".", "0">>, Main \o <<".", "x">>} }
    IN  { c \in all :
            Cardinality(LabelledWith(c, v, {Main \o <<".", "0">>, Main \o <<".", "1">>})) <= 2 }

(***************************************************************************)
(* State of one Webhook call.                                              *)
(***************************************************************************)
NoMessage == <<>>
NoObject == <<>>

NewHandler(pc) ==
    [pc |-> pc,             \* the statement of Webhook the call is at
     status |-> 0,          \* status code written to the caller, 0: none yet
     wrote |-> "none",      \* what was written: "none", "success" or "error"
     exit |-> "",           \* the return statement the call left through
     body |-> NoMessage,    \* var body Message
     verified |-> "unchecked", \* result of the signature check, once made
     compared |-> 0,        \* bytes the comparisons of the signature check looked at
     secret |-> <<>>,       \* secret.Data
     deployments |-> <<>>,  \* deployments.Items
     statefulSets |-> <<>>, \* statefulSets.Items
     kind |-> "deployments",\* the loop the call is in
     i |-> 1,               \* position of the loop in its list
     position |-> 0,        \* labelContainerPosition
     attempts |-> 0,        \* calls RetryOnConflict made to the closure
     result |-> NoObject,   \* result of the fresh get
     outcome |-> [w \in Workloads |-> "none"]]

Init ==
    /\ variant \in {"build", "push"}
    /\ hmacSecret = CurrentKey
    /\ secretStore \in (IF variant = "push" THEN SecretObjects ELSE {<<>>})
    /\ otherWrites = [w \in Workloads |-> 0]
    /\ log = <<>>
    /\ h = [r \in Requests |-> IF r = "r1" THEN NewHandler("start") ELSE NewHandler("idle")]
    /\ \/ /\ workloads = FixedCluster(variant)
          /\ \E route \in BOOLEAN, raw \in Bodies(variant) :
               \E header \in Headers(variant, raw) :
                 req = [r \in Requests |->
                          IF r = "r1" THEN [route |-> route, raw |-> raw, header |-> header]
                          ELSE NoRequest]
       \/ /\ workloads \in Clusters(variant)
          /\ variant = "push" => "master_key_old" \in DOMAIN secretStore
          /\ req = [r \in Requests |->
                      IF r = "r1"
                      THEN [route |-> TRUE, raw |-> GoodBody(variant),
                            header |-> GoodHeader(variant, GoodBody(variant))]
                      ELSE NoRequest]

(***************************************************************************)
(* Webhook: the part that answers the caller.                              *)
(***************************************************************************)
\* A call of the handler: who made it, what it is, on what, the resource
\* version it carries (get: the one it returns), the resource version the
\* control plane holds when it arrives, and its result.
Event(r, op, target, rv, stored, res) ==
    [r |-> r, op |-> op, target |-> target, rv |-> rv, stored |-> stored, res |-> res]

\* The handler returns.  net/http answers 200 with an empty body when the
\* handler wrote nothing.
Return(hr, exit) ==
    [hr EXCEPT !.pc = "done", !.exit = exit,
               !.status = IF hr.status = 0 THEN 200 ELSE hr.status]

\* http.Error(w, text, code); return   (http.NotFound is code 404)
HttpError(hr, code, exit) ==
    [hr EXCEPT !.pc = "done", !.exit = exit, !.status = code, !.wrote = "error"]

\* Mutant of StepAfter: the acknowledgment is left out of the sequence.
StepAfterWithoutRespond(v, step) ==
    IF v = "build"
    THEN CASE step = "readBody" -> "checkSignature"
           [] step = "checkSignature" -> "decodeBody"
           [] step = "decodeBody" -> "checkImage"
           [] step = "checkImage" -> "listDeployments"
    ELSE CASE step = "readBody" -> "decodeBody"
           [] step = "decodeBody" -> "getSecret"
           [] step = "getSecret" -> "checkSignature"
           [] step = "checkSignature" -> "listDeployments"

\* The order of the statements of Webhook up to the acknowledgment.
\*   main.go:  read body, check signature, decode, check image, respond
\*   part_000: read body, decode, get secret, check signature, respond
StepAfter(v, step) ==
    IF v = "build"
    THEN CASE step = "readBody" -> "checkSignature"
           [] step = "checkSignature" -> "decodeBody"
           [] step = "decodeBody" -> "checkImage"
           [] step = "checkImage" -> "respond"
           [] step = "respond" -> "listDeployments"
    ELSE CASE step = "readBody" -> "decodeBody"
           [] step = "decodeBody" -> "getSecret"
           [] step = "getSecret" -> "checkSignature"
           [] step = "checkSignature" -> "respond"
           [] step = "respond" -> "listDeployments"

\* r.URL.Path != "/" || r.Method != "POST"; ioutil.ReadAll(r.Body)
ReadBody(r) ==
    /\ h[r].pc = "start"
    /\ \/ /\ ~req[r].route
          /\ h' = [h EXCEPT ![r] = HttpError(@, 404, "notFound")]
       \/ /\ req[r].route
          /\ \E err \in BOOLEAN :
               h' = [h EXCEPT ![r] = IF err THEN HttpError(@, 500, "readError")
                                     ELSE [@ EXCEPT !.pc = StepAfter(variant, "readBody")]]
    /\ UNCHANGED <<variant, hmacSecret, secretStore, workloads, otherWrites, req, log>>

\* json.Unmarshal(bytes, &body)
DecodeBody(r) ==
    /\ h[r].pc = "decodeBody"
    /\ LET dec == Unmarshal(variant, req[r].raw)
       IN  h' = [h EXCEPT ![r] =
                   IF dec.err THEN HttpError(@, 500, "decodeError")
                   ELSE [@ EXCEPT !.body = dec.msg, !.pc = StepAfter(variant, "decodeBody")]]
    /\ UNCHANGED <<variant, hmacSecret, secretStore, workloads, otherWrites, req, log>>

\* part_000: kubeSet.CoreV1().Secrets(...).Get(...); on an error the handler
\* logs and returns without writing a response.
GetSecret(r) ==
    /\ h[r].pc = "getSecret"
    /\ \E err \in BOOLEAN :
         /\ h' = [h EXCEPT ![r] =
                    IF err THEN Return(@, "secretError")
                    ELSE [@ EXCEPT !.secret = secretStore,
                                   !.pc = StepAfter(variant, "getSecret")]]
         /\ log' = Append(log, Event(r, "getSecret", "secret", 0, 0,
                                     IF err THEN "error" ELSE "ok"))
    /\ UNCHANGED <<variant, hmacSecret, secretStore, workloads, otherWrites, req>>

\* Mutant of CandidateSignatures: the previous key is not tried.
CandidateSignaturesCurrentOnly(v, raw, body, key, secret) ==
    IF v = "build"
    THEN { CreateSignatureString(raw, key) }
    ELSE { CreateSignatureHash(CreateSignature(raw,
             CreateSignature(body.Repository, SecretData(secret, "master_key")))) }

\* Mutant of CandidateSignatures: the keys of every repository are tried,
\* not only those of the repository the body names.
CandidateSignaturesAnyRepository(v, raw, body, key, secret) ==
    IF v = "build"
    THEN { CreateSignatureString(raw, key) }
    ELSE { CreateSignatureHash(CreateSignature(raw, CreateSignature(repository,
                                                                    SecretData(secret, name)))) :
             repository \in {body.Repository, OtherRepoName},
             name \in {"master_key", "master_key_old"} }

\* The prefixed hex digests the handler compares the header with.
CandidateSignatures(v, raw, body, key, secret) ==
    IF v = "build"
    THEN { CreateSignatureString(raw, key) }
    ELSE LET derived    == CreateSignature(body.Repository, SecretData(secret, "master_key"))
             derivedOld == CreateSignature(body.Repository, SecretData(secret, "master_key_old"))
         IN  { CreateSignatureHash(CreateSignature(raw, derived)),
               CreateSignatureHash(CreateSignature(raw, derivedOld)) }

\* Mutant of SignatureAccepted: only the "sha1=" prefix is compared.
SignatureAcceptedByPrefix(v, raw, header, body, key, secret) ==
    HasPrefix(header, <<"sha1=">>)

\* The signature check: the header equals one of the candidates.
SignatureAccepted(v, raw, header, body, key, secret) ==
    \E signature \in CandidateSignatures(v, raw, body, key, secret) :
        ConstantTimeCompare(header, signature) = 1

\* The bytes the comparisons of the signature check look at.  part_000
\* compares with signatureOld only when the header is not signature.
SignatureCheckSteps(v, raw, header, body, key, secret) ==
    IF v = "build"
    THEN ConstantTimeCompareSteps(header, CreateSignatureString(raw, key))
    ELSE LET derived      == CreateSignature(body.Repository, SecretData(secret, "master_key"))
             derivedOld   == CreateSignature(body.Repository, SecretData(secret, "master_key_old"))
             signature    == CreateSignatureHash(CreateSignature(raw, derived))
             signatureOld == CreateSignatureHash(CreateSignature(raw, derivedOld))
         IN  ConstantTimeCompareSteps(header, signature)
               + IF ConstantTimeCompare(header, signature) # 1
                 THEN ConstantTimeCompareSteps(header, signatureOld) ELSE 0

\* Check hmac signature
CheckSignature(r) ==
    /\ h[r].pc = "checkSignature"
    /\ LET steps == SignatureCheckSteps(variant, req[r].raw, req[r].header,
                                        h[r].body, hmacSecret, h[r].secret)
       IN  h' = [h EXCEPT ![r] =
                   IF SignatureAccepted(variant, req[r].raw, req[r].header,
                                        @.body, hmacSecret, @.secret)
                   THEN [@ EXCEPT !.verified = "accepted", !.compared = steps,
                                  !.pc = StepAfter(variant, "checkSignature")]
                   ELSE HttpError([@ EXCEPT !.verified = "rejected", !.compared = steps],
                                  401, "unauthorized")]
    /\ UNCHANGED <<variant, hmacSecret, secretStore, workloads, otherWrites, req, log>>

\* main.go: if len(body.Images) < 1 || body.Images[0] == "" { 400 }
CheckImage(r) ==
    /\ h[r].pc = "checkImage"
    /\ h' = [h EXCEPT ![r] =
               IF MissingImage(@.body) THEN HttpError(@, 400, "noImage")
               ELSE [@ EXCEPT !.pc = StepAfter(variant, "checkImage")]]
    /\ UNCHANGED <<variant, hmacSecret, secretStore, workloads, otherWrites, req, log>>

\* Respond as early as possible to the webhook: w.Write(output)
Respond(r) ==
    /\ h[r].pc = "respond"
    /\ h' = [h EXCEPT ![r] = [@ EXCEPT !.status = 200, !.wrote = "success",
                                       !.pc = StepAfter(variant, "respond")]]
    /\ log' = Append(log, Event(r, "respond", "caller", 0, 0, "ok"))
    /\ UNCHANGED <<variant, hmacSecret, secretStore, workloads, otherWrites, req>>

(***************************************************************************)
(* Webhook: the part that updates the cluster.                             *)
(***************************************************************************)
\* List(metav1.ListOptions{LabelSelector: labelKey}) over all namespaces:
\* copies of the objects of the kind that carry the label key.
ListItems(kind, labelKey) ==
    LET names == SelectSeq(WorkloadOrder,
                           LAMBDA w : /\ workloads[w].kind = kind
                                      /\ labelKey \in DOMAIN workloads[w].labels)
    IN  [n \in 1..Len(names) |-> workloads[names[n]]]

\* Mutant of ListFailed: the call goes on with what it has listed.
ListFailedGoesOn(hr) == [hr EXCEPT !.pc = "loop"]

\* A failed list query: the error is logged and the handler returns.
ListFailed(hr) == Return(hr, "listError")

ListDeployments(r) ==
    /\ h[r].pc = "listDeployments"
    /\ \E err \in BOOLEAN :
         /\ h' = [h EXCEPT ![r] =
                    IF err THEN ListFailed(@)
                    ELSE [@ EXCEPT
                            !.deployments = ListItems("deployments", LabelKey(variant, h[r].body)),
                            !.pc = IF variant = "build" THEN "loop" ELSE "listStatefulSets"]]
         /\ log' = Append(log, Event(r, "list", "deployments", 0, 0,
                                     IF err THEN "error" ELSE "ok"))
    /\ UNCHANGED <<variant, hmacSecret, secretStore, workloads, otherWrites, req>>

\* part_000 only
ListStatefulSets(r) ==
    /\ h[r].pc = "listStatefulSets"
    /\ \E err \in BOOLEAN :
         /\ h' = [h EXCEPT ![r] =
                    IF err THEN ListFailed(@)
                    ELSE [@ EXCEPT
                            !.statefulSets = ListItems("statefulSets", LabelKey(variant, h[r].body)),
                            !.pc = "loop"]]
         /\ log' = Append(log, Event(r, "list", "statefulSets", 0, 0,
                                     IF err THEN "error" ELSE "ok"))
    /\ UNCHANGED <<variant, hmacSecret, secretStore, workloads, otherWrites, req>>

\* The list the loop of the call ranges over.
Items(hr) == IF hr.kind = "deployments" THEN hr.deployments ELSE hr.statefulSets

\* continue: the loop goes on with the next item.
Continue(hr, w, outcome) ==
    [hr EXCEPT !.pc = "loop", !.i = @ + 1, !.outcome[w] = outcome, !.result = NoObject]

\* Mutant of SkipReason: the branch of the label value is not compared.
SkipReasonWithoutBranch(v, labelValue, body) ==
    IF DecodeLabelValue(labelValue).malformed THEN "malformed" ELSE ""

\* Why the loop skips the item before the retry loop, "" when it does not.
SkipReason(v, labelValue, body) ==
    LET label == DecodeLabelValue(labelValue)
    IN  IF label.malformed THEN "malformed"
        ELSE IF label.branch # TargetBranch(v, body) THEN "mismatch"
        ELSE ""

\* The head of the loop body: decode the label value, compare the branch.
FilterWorkload(r) ==
    /\ h[r].pc = "loop"
    /\ h[r].i <= Len(Items(h[r]))
    /\ \E item \in {Items(h[r])[h[r].i]} :
         \E labelValue \in {item.labels[LabelKey(variant, h[r].body)]} :
           \E skip \in {SkipReason(variant, labelValue, h[r].body)} :
             h' = [h EXCEPT ![r] =
                     IF skip # "" THEN Continue(@, item.name, skip)
                     ELSE [@ EXCEPT !.pc = "get", !.attempts = 0,
                                    !.position = DecodeLabelValue(labelValue).position]]
    /\ UNCHANGED <<variant, hmacSecret, secretStore, workloads, otherWrites, req, log>>

\* The end of a loop: part_000 goes on with the stateful sets, then returns.
EndOfList(r) ==
    /\ h[r].pc = "loop"
    /\ h[r].i > Len(Items(h[r]))
    /\ h' = [h EXCEPT ![r] =
               IF variant = "push" /\ @.kind = "deployments"
               THEN [@ EXCEPT !.kind = "statefulSets", !.i = 1]
               ELSE Return(@, "completed")]
    /\ UNCHANGED <<variant, hmacSecret, secretStore, workloads, otherWrites, req, log>>

\* RetryOnConflict calls the closure; the closure gets the workload by
\* name and namespace.  A get error ends the retry loop.
GetWorkload(r) ==
    /\ h[r].pc = "get"
    /\ LET w == Items(h[r])[h[r].i].name
       IN  \E getErr \in BOOLEAN :
             /\ h' = [h EXCEPT ![r] =
                        IF getErr
                        THEN Continue([@ EXCEPT !.attempts = @ + 1], w, "getError")
                        ELSE [@ EXCEPT !.attempts = @ + 1, !.result = workloads[w],
                                       !.pc = "update"]]
             /\ log' = Append(log, Event(r, "get", w, workloads[w].resourceVersion,
                                         workloads[w].resourceVersion,
                                         IF getErr THEN "error" ELSE "ok"))
    /\ UNCHANGED <<variant, hmacSecret, secretStore, workloads, otherWrites, req>>

\* result.Spec.Template.Spec.Containers[position].Image = image
SetImage(result, position, image) ==
    [result EXCEPT !.containers[position + 1] = image]

\* Mutant of Submitted: the object is sent without the resource version
\* of the get, which makes the update unconditional.
SubmittedWithoutVersion(listed, result, position, image) ==
    [SetImage(result, position, image) EXCEPT !.resourceVersion = 0]

\* Mutant of Submitted: the listed copy is changed and sent.
SubmittedListedCopy(listed, result, position, image) == SetImage(listed, position, image)

\* The object the closure passes to Update.
Submitted(listed, result, position, image) == SetImage(result, position, image)

\* What the control plane answers to Update(object): a conflict when the
\* object carries a resource version that is not the current one.
UpdateAnswer(object, apiErr) ==
    IF apiErr THEN "error"
    ELSE IF object.resourceVersion # 0
            /\ object.resourceVersion # workloads[object.name].resourceVersion
         THEN "conflict"
         ELSE "ok"

\* Mutant of AfterConflict: the retry loop has no bound.
AfterConflictUnbounded(hr, w) == [hr EXCEPT !.pc = "get", !.result = NoObject]

\* RetryOnConflict after a conflict: another call of the closure while
\* steps are left, else the conflict is the error of the retry loop.
AfterConflict(hr, w) ==
    IF hr.attempts < DefaultRetrySteps THEN [hr EXCEPT !.pc = "get", !.result = NoObject]
    ELSE Continue(hr, w, "conflict")

\* Mutant of AfterAnswer: every error of the update is retried.
AfterAnswerRetryAnyError(hr, w, answer) ==
    IF answer = "ok" THEN [hr EXCEPT !.pc = "notify"] ELSE AfterConflict(hr, w)

\* What RetryOnConflict and the handler do with the answer to the update:
\* nil ends the retry loop with success, a conflict is retried, any other
\* error ends the retry loop with that error.
AfterAnswer(hr, w, answer) ==
    CASE answer = "ok" -> [hr EXCEPT !.pc = "notify"]
      [] answer = "conflict" -> AfterConflict(hr, w)
      [] answer = "error" -> Continue(hr, w, "updateError")

\* The closure after the get: the bounds check, the new image, the update.
UpdateWorkload(r) ==
    /\ h[r].pc = "update"
    /\ LET w      == h[r].result.name
           listed == Items(h[r])[h[r].i]
       IN  IF ~(Len(h[r].result.containers) > h[r].position)
           THEN \* errors.New("label contains invalid container position")
                /\ h' = [h EXCEPT ![r] = Continue(@, w, "invalidPosition")]
                /\ UNCHANGED <<workloads, log>>
           ELSE IF h[r].position < 0
           THEN \* index out of range: the handler panics
                /\ h' = [h EXCEPT ![r] = [@ EXCEPT !.pc = "panicked", !.exit = "panic"]]
                /\ UNCHANGED <<workloads, log>>
           ELSE \E apiErr \in BOOLEAN :
                  LET object == Submitted(listed, h[r].result, h[r].position,
                                          TargetImage(variant, h[r].body))
                      answer == UpdateAnswer(object, apiErr)
                  IN  /\ log' = Append(log, Event(r, "update", w, object.resourceVersion,
                                                workloads[w].resourceVersion, answer))
                      /\ workloads' =
                           IF answer = "ok"
                           THEN [workloads EXCEPT ![w] =
                                   [object EXCEPT !.resourceVersion =
                                                     workloads[w].resourceVersion + 1]]
                           ELSE workloads
                      /\ h' = [h EXCEPT ![r] = AfterAnswer(@, w, answer)]
    /\ UNCHANGED <<variant, hmacSecret, secretStore, otherWrites, req>>

\* Mutant of AfterNotify: a failed delivery ends the call.
AfterNotifyEscalated(hr, w, err) ==
    IF err THEN Return(hr, "notifyError") ELSE Continue(hr, w, "updated")

\* After slack.PostWebhook: an error is logged as a warning, the loop goes on.
AfterNotify(hr, w, err) == Continue(hr, w, "updated")

\* slack.PostWebhook(slackWebhookUrl, &slackMsg); a failure is only logged.
Notify(r) ==
    /\ h[r].pc = "notify"
    /\ LET w == h[r].result.name
       IN  \E err \in BOOLEAN :
             /\ log' = Append(log, Event(r, "notify", w, 0, 0, IF err THEN "error" ELSE "ok"))
             /\ h' = [h EXCEPT ![r] = AfterNotify(@, w, err)]
    /\ UNCHANGED <<variant, hmacSecret, secretStore, workloads, otherWrites, req>>

(***************************************************************************)
(* Other actors of the cluster write to a workload.  Only the writes that  *)
(* a call can tell apart are modelled: a write to the workload its retry   *)
(* loop is working on, the first one after the list and before the get     *)
(* (the listed copy is stale) and the first one after a get and before the *)
(* update that follows it (the update conflicts).                          *)
(***************************************************************************)
RECURSIVE SumOver(_, _)
SumOver(f, S) ==
    IF S = {} THEN 0
    ELSE LET x == CHOOSE y \in S : TRUE IN f[x] + SumOver(f, S \ {x})

\* The workload the retry loop of the call is working on.
Current(hr) == Items(hr)[hr.i].name

OtherActor(w) ==
    /\ \E r \in Requests :
         /\ h[r].pc \in {"get", "update"}
         /\ Current(h[r]) = w
         /\ workloads[w].resourceVersion =
              IF h[r].pc = "get" THEN Items(h[r])[h[r].i].resourceVersion
              ELSE h[r].result.resourceVersion
    /\ SumOver(otherWrites, Workloads) < MaxOtherWrites
    /\ workloads' = [workloads EXCEPT ![w].replicas = @ + 1, ![w].resourceVersion = @ + 1]
    /\ otherWrites' = [otherWrites EXCEPT ![w] = @ + 1]
    /\ UNCHANGED <<variant, hmacSecret, secretStore, req, h, log>>

Next ==
    \/ \E r \in Requests :
         \/ ReadBody(r)
         \/ DecodeBody(r)
         \/ GetSecret(r)
         \/ CheckSignature(r)
         \/ CheckImage(r)
         \/ Respond(r)
         \/ ListDeployments(r)
         \/ ListStatefulSets(r)
         \/ FilterWorkload(r)
         \/ EndOfList(r)
         \/ GetWorkload(r)
         \/ UpdateWorkload(r)
         \/ Notify(r)
    \/ \E w \in Workloads : OtherActor(w)

Spec == Init /\ [][Next]_vars

\* The steps of the call serving request r.
Handler(r) ==
    \/ ReadBody(r)
    \/ DecodeBody(r)
    \/ GetSecret(r)
    \/ CheckSignature(r)
    \/ CheckImage(r)
    \/ Respond(r)
    \/ ListDeployments(r)
    \/ ListStatefulSets(r)
    \/ FilterWorkload(r)
    \/ EndOfList(r)
    \/ GetWorkload(r)
    \/ UpdateWorkload(r)
    \/ Notify(r)

\* The goroutine of a request keeps running and every call it makes
\* returns; nothing is assumed about the other actors of the cluster.
LiveSpec == Spec /\ \A r \in Requests : WF_vars(Handler(r))

(***************************************************************************)
(* Two requests served at the same time, one for each of two repositories  *)
(* whose labels are on the same deployment: Org/app names container 0,     *)
(* org/lib names container 1.  net/http runs each call of Webhook in its   *)
(* own goroutine; the steps of the two calls interleave freely.            *)
(***************************************************************************)
\* The body each request carries.
ConcurrentBody(v, r) ==
    IF r = "r1" THEN GoodBody(v)
    ELSE IF v = "build" THEN <<"build-lib">> ELSE <<"push-lib">>

\* The label key the handler derives for the repository of a body.
LabelKeyOf(v, raw) == LabelKey(v, Unmarshal(v, raw).msg)

SharedCluster(v) ==
    ("d1" :> Workload("d1",
                      (LabelKeyOf(v, ConcurrentBody(v, "r1")) :> Main \o <<".", "0">>) @@
                      (LabelKeyOf(v, ConcurrentBody(v, "r2")) :> Main \o <<".", "1">>),
                      <<OldImage, OldImage>>)) @@
    ("d2" :> Workload("d2", NoLabels, <<OldImage>>)) @@
    ("s1" :> Workload("s1", NoLabels, <<OldImage>>))

ConcurrentInit ==
    /\ variant \in {"build", "push"}
    /\ hmacSecret = CurrentKey
    /\ secretStore = IF variant = "push"
                     THEN [master_key |-> CurrentKey, master_key_old |-> PreviousKey]
                     ELSE <<>>
    /\ workloads = SharedCluster(variant)
    /\ otherWrites = [w \in Workloads |-> 0]
    /\ log = <<>>
    /\ h = [r \in Requests |-> NewHandler("start")]
    /\ req = [r \in Requests |->
                [route |-> TRUE, raw |-> ConcurrentBody(variant, r),
                 header |-> GoodHeader(variant, ConcurrentBody(variant, r))]]

ConcurrentNext == \E r \in Requests : Handler(r)

ConcurrentSpec == ConcurrentInit /\ [][ConcurrentNext]_vars

(***************************************************************************)
(* Reading the log.                                                        *)
(***************************************************************************)
WorkloadQueries == {"list", "get", "update"}

\* The results of the calls op that request r made on workload w, in order.
Results(r, w, op) ==
    LET calls == SelectSeq(log, LAMBDA e : e.r = r /\ e.op = op /\ e.target = w)
    IN  [n \in 1..Len(calls) |-> calls[n].res]

Count(results, res) == Cardinality({n \in 1..Len(results) : results[n] = res})

\* Position of the call request log[i].r made before log[i], 0 if none.
PreviousCall(i) ==
    LET earlier == {j \in 1..(i - 1) : log[j].r = log[i].r}
    IN  IF earlier = {} THEN 0 ELSE CHOOSE j \in earlier : \A k \in earlier : k <= j

Finished(r, w) == h[r].outcome[w] # "none"

(***************************************************************************)
(* C1: the acknowledgment is written to the caller before any workload     *)
(* query of the request (list, get by name, update) starts, and only a     *)
(* request that was answered with the success body makes such queries.     *)
(***************************************************************************)
C1_AckBeforeQueries ==
    \A i \in 1..Len(log) :
        log[i].op \in WorkloadQueries =>
            /\ \E j \in 1..(i - 1) : log[j].r = log[i].r /\ log[j].op = "respond"
            /\ h[log[i].r].status = 200
            /\ h[log[i].r].wrote = "success"

\* an acknowledged request has listed, fetched and updated a workload
C1_Witness ==
    \E r \in Requests :
        /\ h[r].wrote = "success"
        /\ \A op \in WorkloadQueries : \E i \in 1..Len(log) : log[i].r = r /\ log[i].op = op

(***************************************************************************)
(* C2: optimistic concurrency.  Every update submits the object of the get *)
(* made just before it in the same attempt, with the resource version that *)
(* get returned; the control plane applies an update only when that        *)
(* resource version is still the stored one and answers a conflict when it *)
(* is not; no write of another actor is ever overwritten.                  *)
(***************************************************************************)
C2_OptimisticConcurrency ==
    /\ \A i \in 1..Len(log) :
         log[i].op = "update" =>
           LET j == PreviousCall(i)
           IN  /\ j > 0
               /\ log[j].op = "get"
               /\ log[j].target = log[i].target
               /\ log[j].res = "ok"
               /\ log[j].rv = log[i].rv
               /\ log[i].res = "ok" => log[i].rv = log[i].stored
               /\ log[i].rv # log[i].stored => log[i].res \in {"conflict", "error"}
    /\ \A w \in Workloads : workloads[w].replicas = otherWrites[w]

\* a workload was written by another actor before the get and again between
\* a get and its update; the update conflicted and the retry was applied
C2_Witness ==
    \E i, k \in 1..Len(log) :
        /\ i < k
        /\ log[i].op = "update" /\ log[i].res = "conflict"
        /\ log[k].op = "update" /\ log[k].res = "ok"
        /\ log[k].target = log[i].target
        /\ log[k].r = log[i].r
        /\ \E g \in 1..(i - 1) : log[g].op = "get" /\ log[g].target = log[i].target
                                 /\ log[g].rv > 1
        /\ workloads[log[i].target].replicas >= 2

(***************************************************************************)
(* C3: a conflict is retried from the fresh get, at most DefaultRetrySteps *)
(* attempts in all.  One conflict followed by a successful update is an    *)
(* overall success with exactly two update attempts; when every attempt    *)
(* conflicts the workload is failed after DefaultRetrySteps attempts and   *)
(* no get or update is made for it afterwards.                             *)
(***************************************************************************)
C3_ConflictRetryBounded ==
    \A r \in Requests, w \in Workloads :
        LET gets      == Results(r, w, "get")
            updates   == Results(r, w, "update")
            conflicts == Count(updates, "conflict")
        IN  /\ Len(gets) <= DefaultRetrySteps
            /\ Len(updates) <= Len(gets)
            \* a conflict with attempts left is followed by another get
            /\ Finished(r, w) /\ Len(gets) > 0 /\ conflicts < DefaultRetrySteps =>
                   Len(gets) >= conflicts + 1
            /\ (Len(updates) >= 2 /\ updates[1] = "conflict" /\ updates[2] = "ok") =>
                   /\ Len(updates) = 2
                   /\ Len(gets) = 2
                   /\ h[r].outcome[w] \in {"none", "updated"}
            /\ h[r].outcome[w] = "conflict" <=>
                   (Finished(r, w) /\ conflicts = DefaultRetrySteps)
            /\ h[r].outcome[w] = "conflict" =>
                   /\ Len(gets) = DefaultRetrySteps
                   /\ Len(updates) = DefaultRetrySteps
                   /\ Results(r, w, "notify") = <<>>

\* the call is over; one workload was updated at the second attempt after a
\* conflict, another used up its attempts
C3_Witness ==
    \E r \in Requests, w1, w2 \in Workloads :
        /\ h[r].pc = "done"
        /\ Results(r, w1, "update") = <<"conflict", "ok">>
        /\ h[r].outcome[w1] = "updated"
        /\ h[r].outcome[w2] = "conflict"

Sign(b, k) == <<"sha1=">> \o HexEncodeToString(HmacSha1(k, b))

\* The candidate keys of a request: the static secret, or the keys derived
\* from the current and the previous master key and the repository the
\* body names.
CandidateKeys(r) ==
    IF variant = "build" THEN {hmacSecret}
    ELSE { HmacSha1(SecretData(secretStore, name), NamedRepository(req[r].raw)) :
             name \in {"master_key", "master_key_old"} }

\* The header of the request is a signature of its body under a candidate key.
Authentic(r) == \E k \in CandidateKeys(r) : req[r].header = Sign(req[r].raw, k)

\* Request r made no workload query and sent no notification.
NoClusterEffect(r) ==
    \A i \in 1..Len(log) : log[i].r = r => log[i].op \notin WorkloadQueries \cup {"notify"}

C6_VerifiedBeforeDecoded ==
    \A r \in Requests :
        /\ h[r].exit = "decodeError" => Authentic(r)
        /\ (h[r].pc = "done" /\ ~Authentic(r)
              /\ h[r].exit \notin {"notFound", "readError", "secretError"}) =>
               h[r].status = 401

(***************************************************************************)
(* C7: a POST / request receives status 200 only if its signature was      *)
(* verified and its payload decoded; every other path through the handler  *)
(* ends with another status.                                               *)
(***************************************************************************)
C7_Only200WhenVerifiedAndDecoded ==
    \A r \in Requests :
        (h[r].pc = "done" /\ req[r].route /\ h[r].status = 200) =>
            /\ h[r].verified = "accepted"
            /\ h[r].body # NoMessage
            /\ h[r].wrote = "success"

(***************************************************************************)
(* C8: the signature check accepts a request exactly when its header is    *)
(* the prefixed hex digest of the raw body under one of the candidate keys *)
(* (current or previous); a signature made with any other key, over other  *)
(* bytes or without the prefix is rejected.                                *)
(***************************************************************************)
C8_AcceptedIffSignedWithCandidate ==
    \A r \in Requests :
        /\ h[r].verified = "accepted" => Authentic(r)
        /\ h[r].verified = "rejected" => ~Authentic(r)
        /\ h[r].verified = "rejected" <=> h[r].exit = "unauthorized"

\* a request signed with the key derived from the previous master key was
\* accepted
C8_Witness ==
    \E r \in Requests :
        /\ variant = "push"
        /\ req[r].header = Sign(req[r].raw, HmacSha1(PreviousKey, NamedRepository(req[r].raw)))
        /\ h[r].verified = "accepted"
        /\ h[r].wrote = "success"

(***************************************************************************)
(* C9: a request whose decoded payload has no usable image reference       *)
(* (build: image list empty or first image empty; push: image empty) is    *)
(* answered with 400 and makes no workload query or update.                *)
(***************************************************************************)
NoUsableImage(r) ==
    LET parsed == Document(req[r].raw)
    IN  /\ parsed.json
        /\ IF variant = "build"
           THEN LET images == Field(parsed.doc, "images", <<>>)
                IN  images = <<>> \/ images[1] = EmptyString
           ELSE Field(parsed.doc, "image", EmptyString) = EmptyString

C9_MissingImageIs400 ==
    \A r \in Requests :
        (NoUsableImage(r) /\ h[r].verified = "accepted") =>
            /\ NoClusterEffect(r)
            /\ h[r].pc = "done" => h[r].status = 400

(***************************************************************************)
(* C10: a workload whose label value is malformed (not exactly two         *)
(* dot-separated parts, or a second part that is not a non-negative        *)
(* integer) is skipped without being fetched or updated, and the handler   *)
(* does not panic on it.                                                   *)
(***************************************************************************)
MalformedLabel(value) ==
    LET parts == Split(value, ".")
    IN  \/ Len(parts) # 2
        \/ Len(parts[2]) = 0
        \/ \E n \in 1..Len(parts[2]) : parts[2][n] \notin Digits

\* The workloads the call listed whose label value is malformed.
MalformedListed(r) ==
    LET listed == h[r].deployments \o h[r].statefulSets
    IN  { listed[n].name : n \in
            {m \in 1..Len(listed) : MalformedLabel(listed[m].labels[LabelKey(variant, h[r].body)])} }

C10_MalformedLabelSkipped ==
    \A r \in Requests :
        /\ \A w \in MalformedListed(r) :
             /\ Results(r, w, "get") = <<>>
             /\ Results(r, w, "update") = <<>>
             /\ h[r].outcome[w] \in {"none", "malformed"}
        /\ h[r].pc # "panicked"

(***************************************************************************)
(* Labels of the listed workloads, as a request reads them.                *)
(***************************************************************************)
\* The label value workload w carries under the label key of request r.
LabelOf(r, w) == workloads[w].labels[LabelKey(variant, h[r].body)]

\* Request r fetched workload w at least once.
Fetched(r, w) == Count(Results(r, w, "get"), "ok") > 0

\* No container of workload w carries a new image.
ImagesUnchanged(w) ==
    \A n \in 1..Len(workloads[w].containers) : workloads[w].containers[n] = OldImage

(***************************************************************************)
(* C11: when the container index decoded from the label value is not       *)
(* within the bounds of the freshly fetched container list, the workload   *)
(* is reported failed (invalid container position), no update call is      *)
(* issued for it and its containers are unchanged.                         *)
(***************************************************************************)
IndexOutOfBounds(r, w) ==
    /\ Fetched(r, w)
    /\ DecodeLabelValue(LabelOf(r, w)).position \notin 0..(Len(workloads[w].containers) - 1)

C11_IndexOutOfBoundsIsFailed ==
    \A r \in Requests, w \in Workloads :
        IndexOutOfBounds(r, w) =>
            /\ Results(r, w, "update") = <<>>
            /\ Results(r, w, "notify") = <<>>
            /\ ImagesUnchanged(w)
            /\ \/ h[r].outcome[w] = "invalidPosition"
               \/ h[r].outcome[w] = "none" /\ h[r].pc = "update" /\ Current(h[r]) = w

(***************************************************************************)
(* The normalized target {repository, branch, image} of a request, read    *)
(* from the document its body holds.                                       *)
(***************************************************************************)
NormalizedTarget(r) ==
    LET doc == Document(req[r].raw).doc
    IN  IF variant = "build"
        THEN [repository |-> Field(doc, "source.repoSource.repoName", EmptyString),
              branch     |-> Field(doc, "source.repoSource.branchName", EmptyString),
              image      |-> Field(doc, "images", <<EmptyString>>)[1]]
        ELSE LET ref == Field(doc, "github.ref", EmptyString)
             IN  [repository |-> Field(doc, "github.repository", EmptyString),
                  branch     |-> IF Len(ref) >= Len(RefsHeads)
                                    /\ \A n \in 1..Len(RefsHeads) : ref[n] = RefsHeads[n]
                                 THEN [n \in 1..(Len(ref) - Len(RefsHeads)) |->
                                         ref[n + Len(RefsHeads)]]
                                 ELSE ref,
                  image      |-> Field(doc, "image", EmptyString) \o <<":">>
                                   \o Field(doc, "github.sha", EmptyString)]

\* The names of the workloads request r listed.
Listed(r) ==
    LET items == h[r].deployments \o h[r].statefulSets
    IN  {items[n].name : n \in 1..Len(items)}

(***************************************************************************)
(* C12: a listed workload is fetched and updated only if the branch        *)
(* decoded from its label value equals the target branch of the request;   *)
(* a workload whose branch differs produces no error, no get, no update    *)
(* and no notification: it is skipped.                                     *)
(***************************************************************************)
C12_OnlyMatchingBranch ==
    \A r \in Requests, w \in Workloads :
        LET label == DecodeLabelValue(LabelOf(r, w))
        IN  /\ (Results(r, w, "get") # <<>> \/ Results(r, w, "update") # <<>>) =>
                   /\ w \in Listed(r)
                   /\ ~label.malformed
                   /\ label.branch = NormalizedTarget(r).branch
            /\ (w \in Listed(r) /\ ~label.malformed
                   /\ label.branch # NormalizedTarget(r).branch) =>
                   /\ Results(r, w, "get") = <<>>
                   /\ Results(r, w, "update") = <<>>
                   /\ Results(r, w, "notify") = <<>>
                   /\ h[r].outcome[w] \in {"none", "mismatch"}
                   /\ ImagesUnchanged(w)

\* the call is over: of two listed workloads the one of branch dev was
\* skipped, the one of branch main was updated
C12_Witness ==
    \E r \in Requests, w1, w2 \in Workloads :
        /\ h[r].pc = "done"
        /\ {w1, w2} \subseteq Listed(r)
        /\ DecodeLabelValue(LabelOf(r, w1)).branch = Dev
        /\ h[r].outcome[w1] = "mismatch"
        /\ Results(r, w1, "get") = <<>>
        /\ h[r].outcome[w2] = "updated"
        /\ Count(Results(r, w2, "update"), "ok") = 1

(***************************************************************************)
(* C13: workload outcomes are independent.  When the call has ended after  *)
(* listing, an update attempt (a fresh get, at least) was made for every   *)
(* listed workload of either kind whose label value is well formed and     *)
(* names the target branch, whatever happened to the workloads before it.  *)
(***************************************************************************)
\* The call of request r listed its workloads and has ended.
Ended(r) ==
    \/ h[r].pc = "done" /\ h[r].exit = "completed"
    \/ h[r].pc = "panicked"

C13_OutcomesIndependent ==
    \A r \in Requests :
        Ended(r) =>
            \A w \in Listed(r) :
                (~MalformedLabel(LabelOf(r, w))
                   /\ DecodeLabelValue(LabelOf(r, w)).branch = NormalizedTarget(r).branch) =>
                    /\ Results(r, w, "get") # <<>>
                    /\ h[r].outcome[w] \notin {"none", "malformed", "mismatch"}

(***************************************************************************)
(* C14: exactly one notification call is made for a workload whose update  *)
(* succeeded and none for a workload that was skipped or failed; a failed  *)
(* delivery leaves the workload updated and the call goes on to the end of *)
(* its lists.                                                              *)
(***************************************************************************)
C14_OneNotificationPerUpdate ==
    \A r \in Requests :
        /\ \A w \in Workloads :
             LET notifications == Results(r, w, "notify")
                 applied       == Count(Results(r, w, "update"), "ok")
             IN  /\ Len(notifications) <= applied
                 /\ applied <= 1
                 /\ Finished(r, w) => Len(notifications) = applied
                 /\ h[r].outcome[w] = "updated" <=> (Finished(r, w) /\ applied = 1)
                 /\ (applied = 1 /\ Len(notifications) = 0) =>
                        h[r].pc = "notify" /\ Current(h[r]) = w
        /\ (h[r].pc = "done" /\ \E i \in 1..Len(log) : log[i].r = r /\ log[i].op = "notify") =>
               /\ h[r].exit = "completed"
               /\ \A w \in Listed(r) : Finished(r, w)

\* the call is over: the notification of one updated workload failed, a
\* later workload was updated and notified, a third was not updated and has
\* no notification
C14_Witness ==
    \E r \in Requests, w1, w2, w3 \in Workloads :
        /\ h[r].pc = "done"
        /\ h[r].outcome[w1] = "updated" /\ Results(r, w1, "notify") = <<"error">>
        /\ h[r].outcome[w2] = "updated" /\ Results(r, w2, "notify") = <<"ok">>
        /\ \E i, j \in 1..Len(log) :
              /\ i < j
              /\ log[i].op = "notify" /\ log[i].target = w1
              /\ log[j].op = "notify" /\ log[j].target = w2
        /\ w3 \in Listed(r)
        /\ h[r].outcome[w3] \notin {"none", "updated"}
        /\ Results(r, w3, "notify") = <<>>

(***************************************************************************)
(* C15: a failed list query is terminal for the whole request and comes    *)
(* before any per-workload work.  When the list of either kind fails, the  *)
(* handler returns: the request fetches and updates no workload of either  *)
(* kind and sends no notification.                                         *)
(***************************************************************************)
PerWorkloadWork == {"get", "update", "notify"}

C15_ListFailureIsTerminal ==
    \A r \in Requests :
        /\ \A i, j \in 1..Len(log) :
             (i < j /\ log[i].r = r /\ log[j].r = r /\ log[j].op = "list") =>
                 log[i].op \notin PerWorkloadWork
        /\ (\E i \in 1..Len(log) : log[i].r = r /\ log[i].op = "list" /\ log[i].res = "error") =>
               /\ \A j \in 1..Len(log) : log[j].r = r => log[j].op \notin PerWorkloadWork
               /\ h[r].pc = "done"
               /\ h[r].exit = "listError"
               /\ \A w \in Workloads : h[r].outcome[w] = "none" /\ ImagesUnchanged(w)

\* deployments of the target branch were listed, then the list of the
\* stateful sets failed and the call returned
C15_Witness ==
    \E r \in Requests :
        /\ variant = "push"
        /\ h[r].pc = "done"
        /\ \E n \in 1..Len(h[r].deployments) :
              SkipReason(variant, h[r].deployments[n].labels[LabelKey(variant, h[r].body)],
                         h[r].body) = ""
        /\ \E i, j \in 1..Len(log) :
              /\ i < j
              /\ log[i].r = r /\ log[i].op = "list" /\ log[i].target = "deployments"
              /\ log[i].res = "ok"
              /\ log[j].r = r /\ log[j].op = "list" /\ log[j].target = "statefulSets"
              /\ log[j].res = "error"

(***************************************************************************)
(* C16: the updater works on the normalized target of the variant that is  *)
(* present.  Push event: the branch is the ref without its leading         *)
(* "refs/heads/" and the image written is "<image>:<sha>"; build           *)
(* completion: the branch is branchName and the image written is the first *)
(* entry of images.  Every workload the request fetches is of that branch  *)
(* and an applied update leaves that image, and nothing else new, in the   *)
(* container the label names.                                              *)
(***************************************************************************)
C16_NormalizedTargetUsed ==
    \A r \in Requests, w \in Workloads :
        LET label  == DecodeLabelValue(LabelOf(r, w))
            target == NormalizedTarget(r)
        IN  /\ Results(r, w, "get") # <<>> =>
                   /\ label.branch = target.branch
                   /\ TargetBranch(variant, h[r].body) = target.branch
            /\ Count(Results(r, w, "update"), "ok") > 0 =>
                   /\ TargetImage(variant, h[r].body) = target.image
                   /\ \A n \in 1..Len(workloads[w].containers) :
                        workloads[w].containers[n] =
                            IF n = label.position + 1 THEN target.image ELSE OldImage

\* a push event for refs/heads/main with image img and sha abc123 was
\* applied to a workload of branch main: its container holds img:abc123
C16_Witness ==
    \E r \in Requests, w \in Workloads :
        /\ variant = "push"
        /\ req[r].raw = <<"push">>
        /\ Document(req[r].raw).doc["github.ref"] = RefsHeads \o Main
        /\ Document(req[r].raw).doc["image"] = Img
        /\ NormalizedTarget(r) =
             [repository |-> RepoName, branch |-> Main, image |-> <<"img", ":", "abc123">>]
        /\ h[r].outcome[w] = "updated"
        /\ DecodeLabelValue(LabelOf(r, w)).branch = Main
        /\ workloads[w].containers[DecodeLabelValue(LabelOf(r, w)).position + 1]
             = <<"img", ":", "abc123">>

(***************************************************************************)
(* C17: in the rotating-key revision the verification key is derived from  *)
(* the master key and the repository the body names.  A signature made     *)
(* with the key derived (from a master key of the store) for a repository  *)
(* other than the one the body names is rejected with 401 and has no       *)
(* effect on the cluster.                                                  *)
(***************************************************************************)
\* The repositories whose derived keys a sender may hold.
Repositories == {RepoName, OtherRepoName, ToLower(RepoName)}

\* The master keys the secret store holds.
MasterKeys == {secretStore[name] : name \in DOMAIN secretStore}

\* The header of request r was made with the key derived for a repository
\* that is not the one its body names.
SignedForOtherRepository(r) ==
    \E a \in Repositories, m \in MasterKeys :
        /\ a # NamedRepository(req[r].raw)
        /\ req[r].header = Sign(req[r].raw, HmacSha1(m, a))

FullComparison(r) ==
    LET expected == ByteLength(Sign(req[r].raw, CurrentKey))
    IN  IF variant = "build" THEN expected ELSE 2 * expected

C18_ComparisonConstantTime ==
    \A r \in Requests :
        h[r].verified = "rejected" => h[r].compared = FullComparison(r)

(***************************************************************************)
(* C19: once the acknowledgment is sent the cluster-update phase always    *)
(* terminates.  Whatever conflicts the other actors cause, no workload is  *)
(* fetched more than DefaultRetrySteps times, and the handler returns;     *)
(* when it returns from the end of its lists every listed workload has a   *)
(* final outcome (updated, skipped or failed).                             *)
(***************************************************************************)
Returned(r) ==
    /\ h[r].pc = "done"
    /\ h[r].exit = "completed" => \A w \in Listed(r) : Finished(r, w)

C19_UpdatePhaseTerminates ==
    /\ [](\A r \in Requests, w \in Workloads : Len(Results(r, w, "get")) <= DefaultRetrySteps)
    /\ \A r \in Requests : (h[r].wrote = "success") ~> Returned(r)

(***************************************************************************)
(* C20: when the secret store holds no previous key (master_key_old absent *)
(* or empty), only a signature made with the key derived from the current  *)
(* master key is accepted; a signature made with the key derived from an   *)
(* empty master key, which needs no secret, is rejected.                   *)
(***************************************************************************)
NoPreviousKey ==
    /\ variant = "push"
    /\ SecretData(secretStore, "master_key_old") = NilBytes

\* The header of request r is the signature of its body under the key
\* derived from master key m for the repository the body names.
SignedWithMaster(r, m) ==
    req[r].header = Sign(req[r].raw, HmacSha1(m, NamedRepository(req[r].raw)))

C20_NoPreviousKeyOnlyCurrent ==
    \A r \in Requests :
        NoPreviousKey =>
            /\ h[r].verified = "accepted" => SignedWithMaster(r, secretStore["master_key"])
            /\ (h[r].verified # "unchecked" /\ SignedWithMaster(r, NilBytes)) =>
                   h[r].verified = "rejected" /\ h[r].status = 401

(***************************************************************************)
(* C21: no lost update between concurrent requests.  Two requests that run *)
(* at the same time and name different containers of the same workload:    *)
(* in every interleaving of their gets and updates, a request that reports *)
(* success has its image in the container it names, so when both report    *)
(* success the workload carries both new images; and an update that is     *)
(* applied changes, relative to the object its request read, which is then *)
(* still the stored one, only the image of the container at its own index. *)
(***************************************************************************)
\* The container of workload w that request r names, counted from 1.
OwnContainer(r, w) == DecodeLabelValue(LabelOf(r, w)).position + 1

\* Request r reported success for workload w.
ReportedSuccess(r, w) == h[r].outcome[w] = "updated" \/ (h[r].pc = "notify" /\ Current(h[r]) = w)

BothImagesKept ==
    \A w \in Workloads :
        /\ \A r \in Requests :
             ReportedSuccess(r, w) =>
                 workloads[w].containers[OwnContainer(r, w)] = NormalizedTarget(r).image
        /\ (\A r \in Requests : ReportedSuccess(r, w)) =>
               /\ \A r1, r2 \in Requests : r1 # r2 => OwnContainer(r1, w) # OwnContainer(r2, w)
               /\ \A n \in 1..Len(workloads[w].containers) :
                    \E r \in Requests :
                        /\ n = OwnContainer(r, w)
                        /\ workloads[w].containers[n] = NormalizedTarget(r).image

OnlyOwnContainerChanged ==
    \A w \in Workloads :
        workloads'[w] # workloads[w] =>
            \E r \in Requests :
                /\ h[r].pc = "update"
                /\ h[r].result = workloads[w]
                /\ workloads'[w] =
                     [workloads[w] EXCEPT
                        !.containers[OwnContainer(r, w)] = NormalizedTarget(r).image,
                        !.resourceVersion = @ + 1]

C21_NoLostUpdate == []BothImagesKept /\ [][OnlyOwnContainerChanged]_vars

\* both requests reported success for the shared deployment, one of them
\* after a conflict with the update of the other, and the deployment holds
\* the image of Org/app in container 0 and the image of org/lib in container 1
C21_Witness ==
    /\ \A r \in Requests : h[r].pc = "done" /\ h[r].outcome["d1"] = "updated"
    /\ \E r \in Requests : Results(r, "d1", "update") = <<"conflict", "ok">>
    /\ workloads["d1"].containers =
         <<NormalizedTarget("r1").image, NormalizedTarget("r2").image>>
    /\ NormalizedTarget("r1").image # NormalizedTarget("r2").image
    /\ workloads["d1"].resourceVersion = 3

====
